---------------------------- MODULE Spec2Model ----------------------------
(***************************************************************************)
(* Model of src/hstr_history.c (hstr): loading the shell history and       *)
(* ranking it.  get_prioritized_history() is modelled statement by         *)
(* statement: one action for the set-up, one per iteration of the scan     *)
(* loop, one for the dump, one per iteration of the copy-out loop and one  *)
(* for the return.  The radix sorter and the hash set live in other files  *)
(* of the repository; they are modelled from their documented contract.    *)
(*                                                                         *)
(* A C string is written by run length: the record [s, pad] is the text s  *)
(* followed by pad filler characters, so that a line of 200,000            *)
(* characters is a small value.  No text s of the model holds the filler.  *)
(*                                                                         *)
(* TLC's integers are 32-bit signed, so `unsigned` is UIntBits wide here   *)
(* instead of 32; every constant of the code that is compared with it      *)
(* (the key limit 100000, size*1000) is kept as written.                   *)
(***************************************************************************)
EXTENDS Integers, Sequences, FiniteSets, TLC

(* ------------------------------ bounds -------------------------------- *)

\* Width of `unsigned` in the model.
UIntBits == 20
\* Longest history file, in lines.
MaxLen == 4
\* Most reloads sent to the terminal in a session.
MaxSent == 1
\* A history array that readline has grown beyond 100 slots (size*1000 is
\* then the key limit).
GrownSize == 150
\* Largest occurrence position handed to the ranking function on its own.
MaxPos == 7

(* ------------------------- program constants -------------------------- *)

UINT_MAX == 2 ^ UIntBits - 1

\* "so we could skip first 15 chars in every zsh history item"
ZSH_HISTORY_ITEM_OFFSET == 15

\* "the name of history file is .zsh_history"
FILE_ZSH_HISTORY == ".zsh_history"

\* radixsort_init(&rs, (radixMaxKeyEstimate<100000?100000:radixMaxKeyEstimate))
KeyLimitFloor == 100000

\* unsigned radixMaxKeyEstimate=historyState->size*1000
KeyPerSlot == 1000

\* The null pointer; a pointer to a RankedHistoryItem is its index in heap.
NULL == 0

\* A slot of a malloc'ed array that was never assigned.
Unset == [unset |-> TRUE]

(* ------------------------------ strings ------------------------------- *)

Str(s) == [s |-> s, pad |-> 0]

strlen(line) == Len(line.s) + line.pad

\* What is read through the pointer line+offset.  Up to the terminating
\* NUL it is the rest of the string; further it is out of the buffer, and
\* what is read there is whatever the heap holds.
GarbageTexts == {Str(""), Str("@#")}

PointerPlus(line, offset) ==
    IF offset <= Len(line.s)
    THEN {[s |-> SubSeq(line.s, offset + 1, Len(line.s)), pad |-> line.pad]}
    ELSE IF offset <= strlen(line)
    THEN {[s |-> "", pad |-> strlen(line) - offset]}
    ELSE GarbageTexts

\* static const char *commandBlacklist[]
commandBlacklist ==
    << Str("ls"), Str("pwd"), Str("cd"), Str("cd .."), Str("hh"), Str("mc"),
       Str("ls "), Str("pwd "), Str("cd "), Str("cd .. "), Str("hh "), Str("mc ") >>

(* --------------------------- ranking function ------------------------- *)

\* log(n)*10.0 in hundredths, for n = 1, 2, ...: 10*ln(2) = 6.93...
LogTimes10 == << 0, 693, 1098, 1386, 1609, 1791, 1945, 2079, 2197, 2302, 2397, 2484 >>

\* A conversion that rounds to the nearest integer.
DoubleToLongRounding(hundredths) == (hundredths + 50) \div 100

\* The conversion of a non-negative double (in hundredths) to long: the
\* fraction is discarded.
DoubleToLong(hundredths) == hundredths \div 100

\* The conversion of long to unsigned.
LongToUnsigned(n) == n % (UINT_MAX + 1)

\* log(0) is -infinity, and so is the sum; converting it to long is undefined.
\* The builds give LONG_MIN, which as unsigned is 0 where long has 64 bits
\* and the top bit alone where long has the width of unsigned.
MinusInfinityAsUnsigned == {0, 2 ^ (UIntBits - 1)}

\* long metrics=rank+(log(newOccurenceOrder)*10.0)+length, for an order >= 1
Metrics(rank, newOccurenceOrder, length) ==
    DoubleToLong(rank * 100 + LogTimes10[newOccurenceOrder] + length * 100)

\* unsigned history_ranking_function(unsigned rank, int newOccurenceOrder,
\* size_t length): the set of values it may return.  assert() is compiled
\* out by #define NDEBUG.
history_ranking_function(rank, newOccurenceOrder, length) ==
    IF newOccurenceOrder = 0
    THEN MinusInfinityAsUnsigned
    ELSE {LongToUnsigned(Metrics(rank, newOccurenceOrder, length))}

(* ------------------------------ file names ---------------------------- *)

\* int get_item_offset(char *historyFileName)
get_item_offset(historyFileName) ==
    LET historyFileLen == Len(historyFileName)
        zshFileNameLen == Len(FILE_ZSH_HISTORY)
    IN  IF /\ historyFileLen >= zshFileNameLen
           /\ SubSeq(historyFileName, historyFileLen - zshFileNameLen + 1,
                     historyFileLen) = FILE_ZSH_HISTORY
        THEN ZSH_HISTORY_ITEM_OFFSET
        ELSE 0

(* ------------------------------- hash set ----------------------------- *)

\* A HashSet is a map from keys to values (NULL for a plain member).
hashset_init == [k \in {} |-> NULL]

hashset_contains(hs, key) == key \in DOMAIN hs

hashset_get(hs, key) == IF key \in DOMAIN hs THEN hs[key] ELSE NULL

hashset_put(hs, key, value) ==
    IF key \in DOMAIN hs THEN hs ELSE (key :> value) @@ hs

hashset_add(hs, key) == hashset_put(hs, key, NULL)

(* ----------------------------- radix sorter --------------------------- *)

\* The array of buckets is written sparsely: bucket is defined on the
\* indexes of the buckets that hold a chain, every other bucket is empty.
radixsort_init(keyLimit) ==
    [maxKey |-> keyLimit, size |-> 0, bucket |-> [k \in {} |-> << >>],
     optFloorAndInsertBigKeys |-> FALSE]

Chain(rs, key) == IF key \in DOMAIN rs.bucket THEN rs.bucket[key] ELSE << >>

WithChain(rs, key, chain) ==
    IF chain = << >>
    THEN [k \in DOMAIN rs.bucket \ {key} |-> rs.bucket[k]]
    ELSE (key :> chain) @@ rs.bucket

\* The key an item is stored under: a key above maxKey is clamped.
StoredKey(rs, key) == IF key > rs.maxKey THEN rs.maxKey ELSE key

\* Insert: prepend to the bucket of the key; a key above maxKey is clamped
\* into the maxKey bucket, or the insert is rejected, by the option.
radixsort_add(rs, item) ==
    IF item.key > rs.maxKey /\ ~rs.optFloorAndInsertBigKeys
    THEN rs
    ELSE LET key == StoredKey(rs, item.key)
         IN  [rs EXCEPT !.bucket = WithChain(rs, key,
                                       << [item EXCEPT !.key = key] >> \o Chain(rs, key)),
                        !.size = rs.size + 1]

\* Position in the chain of bucket key of the item whose data is data; 0 if none.
CutPosition(rs, key, data) ==
    LET chain == Chain(rs, key)
        hits == {p \in 1..Len(chain) : chain[p].data = data}
    IN  IF key > rs.maxKey \/ hits = {} THEN 0
        ELSE CHOOSE p \in hits : \A q \in hits : p <= q

\* radix_cut returning NULL.
NullItem == [key |-> 0, data |-> NULL]

\* The item radix_cut returns, NullItem when bucket key does not hold it.
radix_cut(rs, key, data) ==
    IF CutPosition(rs, key, data) = 0 THEN NullItem
    ELSE Chain(rs, key)[CutPosition(rs, key, data)]

\* The sorter after radix_cut.
AfterCut(rs, key, data) ==
    LET p == CutPosition(rs, key, data)
        chain == Chain(rs, key)
    IN  IF p = 0 THEN rs
        ELSE [rs EXCEPT !.bucket = WithChain(rs, key,
                                     SubSeq(chain, 1, p - 1) \o SubSeq(chain, p + 1, Len(chain))),
                        !.size = rs.size - 1]

RECURSIVE DumpFrom(_, _)
DumpFrom(rs, keys) ==
    IF keys = {} THEN << >>
    ELSE LET k == CHOOSE k \in keys : \A j \in keys : k <= j
         IN  rs.bucket[k] \o DumpFrom(rs, keys \ {k})

\* Drain: the chains of the buckets 0 .. maxKey, one after the other.
radixsort_dump(rs) == DumpFrom(rs, DOMAIN rs.bucket)

\* The sorter after the drain: emptied; size is kept by insert and cut alone.
AfterDump(rs) == [rs EXCEPT !.bucket = [k \in {} |-> << >>]]

(* ------------------------------- inputs ------------------------------- *)

\* Two lines longer than any key limit of the model.
LongLineA == [s |-> "a", pad |-> 2 * KeyLimitFloor]
LongLineB == [s |-> "b", pad |-> 2 * KeyLimitFloor]

\* The lines a history file of the model is made of: plain lines, lines of
\* a zsh extended history (the same command at two times), long lines.
Lines ==
    { Str("ls"), Str("ps"),
      Str(": 1420549651:0;ls"), Str(": 1420549680:0;ls"),
      LongLineA, LongLineB }

Logs == UNION {[1..n -> Lines] : n \in 0..MaxLen}

\* $HISTFILE, or $HOME/.bash_history
HistoryFiles == {"/home/u/.bash_history", "/home/u/.zsh_history", "hist"}

\* historyState->size, the slots readline allocated: more than the entries.
HistorySizes(length) == {length + 1, GrownSize}

(* -------------------------------- state ------------------------------- *)

VARIABLES
    pc,                 \* where get_prioritized_history() is
    historyFile,        \* get_history_file_name()
    fileLines,          \* the lines of that file, oldest first
    entries,            \* readline's history list (historyState->entries)
    historySize,        \* historyState->size
    itemOffset,
    blacklist,          \* HashSet blacklist
    rankmap,            \* HashSet rankmap: line -> RankedHistoryItem*
    heap,               \* the RankedHistoryItems malloc'ed, by pointer
    freed,              \* the pointers passed to free()
    rs,                 \* RadixSorter rs
    i,
    rawOffset,
    rawHistory,
    prioritizedRadix,   \* what radixsort_dump returned
    prioritizedHistory, \* static HistoryItems *prioritizedHistory
    retval,             \* what get_prioritized_history() returned
    rankCall,           \* the last call of history_ranking_function
    minusInfinity,      \* (long)(-infinity) as unsigned, in this build
    historyOffset,      \* readline's position in the list (where_history())
    dirty,              \* static bool dirty
    terminalInput,      \* what fill_terminal_input() was given, in order
    lastOp,             \* the last history_mgmt_* call and what it returned
    removedSince,       \* a remove returned > 0 since the last open or clear
    earlier             \* what the former call of get_prioritized_history gave

vars == << pc, historyFile, fileLines, entries, historySize, itemOffset, blacklist,
           rankmap, heap, freed, rs, i, rawOffset, rawHistory, prioritizedRadix,
           prioritizedHistory, retval, rankCall, minusInfinity, historyOffset, dirty,
           terminalInput, lastOp, removedSince, earlier >>

inputVars == << historyFile, fileLines, minusInfinity >>
mgmtVars == << dirty, terminalInput, lastOp, removedSince >>
scanVars == << blacklist, rankmap, heap, rs, rawHistory >>
resultVars == << prioritizedRadix, prioritizedHistory, retval, freed >>

NoCall == [made |-> FALSE]

NoHistory == [null |-> TRUE]

NoOp == [op |-> "none"]

NoEarlier == [made |-> FALSE]

length == Len(entries)

\* historyList[k]->line
historyList(k) == entries[k + 1]

Array(n) == [k \in 0..(n - 1) |-> Unset]

Init ==
    /\ pc = "idle"
    /\ historyFile \in HistoryFiles
    /\ fileLines \in Logs
    /\ entries = << >>
    /\ historySize = 0
    /\ itemOffset = 0
    /\ blacklist = hashset_init
    /\ rankmap = hashset_init
    /\ heap = << >>
    /\ freed = {}
    /\ rs = radixsort_init(0)
    /\ i = 0
    /\ rawOffset = 0
    /\ rawHistory = Array(0)
    /\ prioritizedRadix = << >>
    /\ prioritizedHistory = NoHistory
    /\ retval = "none"
    /\ rankCall = NoCall
    /\ minusInfinity \in MinusInfinityAsUnsigned
    /\ historyOffset = 0
    /\ dirty = FALSE
    /\ terminalInput = << >>
    /\ lastOp = NoOp
    /\ removedSince = FALSE
    /\ earlier = NoEarlier

\* What a call of history_ranking_function returns in this build: the
\* conversion of -infinity gives the same value at every call.
RankReturned(rank, newOccurenceOrder, len) ==
    {m \in history_ranking_function(rank, newOccurenceOrder, len) :
        newOccurenceOrder = 0 => m = minusInfinity}

(* ------------------------ get_prioritized_history --------------------- *)

\* The exit after the hash sets were set up.
ReadHistoryFailsLate ==
    /\ pc = "idle"
    /\ pc' = "exited"
    /\ blacklist' = [k \in {commandBlacklist[n] : n \in 1..Len(commandBlacklist)} |-> NULL]
    /\ UNCHANGED << inputVars, mgmtVars, historyOffset, earlier,
                    entries, historySize, itemOffset, rankmap, heap, rs, rawHistory,
                    i, rawOffset, resultVars, rankCall >>

\* read_history(historyFile)!=0: exit(EXIT_FAILURE)
ReadHistoryFails ==
    /\ pc = "idle"
    /\ pc' = "exited"
    /\ UNCHANGED << inputVars, mgmtVars, historyOffset, earlier,
                    entries, historySize, itemOffset, scanVars, i,
                    rawOffset, resultVars, rankCall >>

RECURSIVE AddAll(_, _, _)
AddAll(hs, list, n) ==
    IF n = 0 THEN hs ELSE hashset_add(AddAll(hs, list, n - 1), list[n])

\* unsigned radixMaxKeyEstimate=historyState->size*1000, floored at 100000
KeyLimit(size) ==
    LET radixMaxKeyEstimate == size * KeyPerSlot
    IN  IF radixMaxKeyEstimate < KeyLimitFloor THEN KeyLimitFloor
        ELSE radixMaxKeyEstimate

\* int rawOffset=historyState->length-1
FirstRawOffset(len) == len - 1

\* The test off by one.
HasEntriesBeyondOne(len) == len > 1

\* if(historyState->length > 0)
HasEntries(len) == len > 0

\* A rankmap kept from one call to the next, as a static one would be.
InitialRankmapKept(old) == old

\* HashSet rankmap; hashset_init(&rankmap)
InitialRankmap(old) == hashset_init

\* using_history(), then the file is read into the history list (readline
\* allocates more slots when lines are added); with entries in it the hash
\* sets, the sorter and the raw array are set up, else NULL is returned.
Setup ==
    /\ pc = "idle"
    /\ historyOffset' = Len(entries)
    /\ entries' = entries \o fileLines
    /\ \E size \in (IF fileLines = << >> /\ entries # << >>
                     THEN {historySize} ELSE HistorySizes(Len(entries'))) :
           historySize' = size
    /\ itemOffset' = get_item_offset(historyFile)
    /\ IF HasEntries(Len(entries'))
       THEN /\ rankmap' = InitialRankmap(rankmap)
            /\ blacklist' = AddAll(hashset_init, commandBlacklist, Len(commandBlacklist))
            /\ rs' = [radixsort_init(KeyLimit(historySize'))
                        EXCEPT !.optFloorAndInsertBigKeys = TRUE]
            /\ rawHistory' = Array(Len(entries'))
            /\ rawOffset' = FirstRawOffset(Len(entries'))
            /\ i' = 0
            /\ pc' = "scan"
            /\ retval' = retval
       ELSE /\ pc' = "returned"
            /\ retval' = "NULL"
            /\ UNCHANGED << rankmap, blacklist, rs, rawHistory, rawOffset, i >>
    /\ UNCHANGED << inputVars, mgmtVars, earlier, heap, freed, prioritizedRadix, prioritizedHistory,
                    rankCall >>

\* The loop's foot without rawOffset--.
NextRawOffsetStuck(offset) == offset

\* for(...; i++, rawOffset--)
NextRawOffset(offset) == offset - 1

\* rawHistory[rawOffset]=line
RawStored(raw, offset, line) == [raw EXCEPT ![offset] = line]

\* The head and the foot of every iteration of the scan loop.
Iteration(line) ==
    /\ pc = "scan"
    /\ i < length
    /\ line = historyList(i)
    /\ rawHistory' = RawStored(rawHistory, rawOffset, line)
    /\ i' = i + 1
    /\ rawOffset' = NextRawOffset(rawOffset)
    /\ UNCHANGED << pc, inputVars, mgmtVars, historyOffset, earlier,
                    entries, historySize, itemOffset, blacklist,
                    resultVars >>

\* The scan without the blacklist test.
SkippedNever(line) == FALSE

\* if(hashset_contains(&blacklist, line)) continue;
Skipped(line) == hashset_contains(blacklist, line)

ScanBlacklisted ==
    \E line \in Lines :
        /\ Iteration(line)
        /\ Skipped(line)
        /\ UNCHANGED << rankmap, heap, rs, rankCall >>

\* The first occurrence of a line: a new RankedHistoryItem, put into rankmap
\* and added to the sorter under its rank.
ScanFirst ==
    \E line \in Lines :
        /\ Iteration(line)
        /\ ~Skipped(line)
        /\ hashset_get(rankmap, line) = NULL
        /\ \E rank \in RankReturned(0, i, strlen(line)) :
            LET r == Len(heap) + 1
            IN  /\ heap' = Append(heap, [item |-> line, rank |-> rank])
                /\ rankmap' = hashset_put(rankmap, line, r)
                /\ rs' = radixsort_add(rs, [key |-> rank, data |-> r])
                /\ rankCall' = [made |-> TRUE, rank |-> 0, order |-> i,
                                length |-> strlen(line), result |-> rank]

\* The item added again under the key it was filed under before.
RequeuedStale(radixItem, rank) == radixItem

\* radixItem->key=r->rank
Requeued(radixItem, rank) == [radixItem EXCEPT !.key = rank]

\* A further occurrence: the item is cut from the bucket of its rank and,
\* if it was found there, ranked again and added under the new rank.
ScanRepeat ==
    \E line \in Lines :
        /\ Iteration(line)
        /\ ~Skipped(line)
        /\ hashset_get(rankmap, line) # NULL
        /\ LET r == hashset_get(rankmap, line)
               radixItem == radix_cut(rs, heap[r].rank, r)
           IN  IF radixItem # NullItem
               THEN \E rank \in RankReturned(heap[r].rank, i, strlen(line)) :
                        /\ heap' = [heap EXCEPT ![r].rank = rank]
                        /\ rs' = radixsort_add(AfterCut(rs, heap[r].rank, r),
                                               Requeued(radixItem, rank))
                        /\ rankCall' = [made |-> TRUE, rank |-> heap[r].rank, order |-> i,
                                        length |-> strlen(line), result |-> rank]
               ELSE UNCHANGED << heap, rs, rankCall >>
        /\ UNCHANGED rankmap

\* RadixItem **prioritizedRadix=radixsort_dump(&rs), and the HistoryItems
\* allocated with count, rawCount, raw and an items array of rs.size slots.
Dump ==
    /\ pc = "scan"
    /\ i >= length
    /\ prioritizedRadix' = radixsort_dump(rs)
    /\ rs' = AfterDump(rs)
    /\ prioritizedHistory' = [count |-> rs'.size, rawCount |-> length,
                              items |-> Array(rs'.size), raw |-> rawHistory]
    /\ i' = 0
    /\ pc' = "copy"
    /\ UNCHANGED << inputVars, mgmtVars, historyOffset, earlier,
                    entries, historySize, itemOffset, blacklist, rankmap,
                    heap, freed, rawOffset, rawHistory, retval, rankCall >>

\* char* item = ...->item; item += itemOffset
ItemText(line, offset) == PointerPlus(line, offset)

\* The loop stopping one item early.
CopyBoundShort(size) == size - 1

\* for(i=0; i<rs.size; i++)
CopyBound(size) == size

\* One iteration of the loop that fills items and frees the dumped items.
CopyItem ==
    /\ pc = "copy"
    /\ i < CopyBound(rs.size)
    /\ LET data == prioritizedRadix[i + 1].data
       IN  /\ IF data # NULL
              THEN \E item \in ItemText(heap[data].item, itemOffset) :
                       prioritizedHistory' =
                           [prioritizedHistory EXCEPT !.items[i] = item]
              ELSE UNCHANGED prioritizedHistory
           /\ freed' = freed \cup {data}
    /\ i' = i + 1
    /\ UNCHANGED << pc, inputVars, mgmtVars, historyOffset, earlier,
                    entries, historySize, itemOffset, scanVars,
                    rawOffset, prioritizedRadix, retval, rankCall >>

\* radixsort_destroy(&rs); return prioritizedHistory;
Return ==
    /\ pc = "copy"
    /\ i >= CopyBound(rs.size)
    /\ pc' = "returned"
    /\ retval' = "prioritizedHistory"
    /\ UNCHANGED << inputVars, mgmtVars, historyOffset, earlier,
                    entries, historySize, itemOffset, scanVars, i,
                    rawOffset, prioritizedRadix, prioritizedHistory, freed, rankCall >>

Next ==
    \/ ReadHistoryFails
    \/ Setup
    \/ ScanBlacklisted
    \/ ScanFirst
    \/ ScanRepeat
    \/ Dump
    \/ CopyItem
    \/ Return

Spec == Init /\ [][Next]_vars

(* ------------------- the ranking function on its own ------------------ *)

RankSamples == {0, 1, 42, KeyLimitFloor, UINT_MAX - 7, UINT_MAX - 1, UINT_MAX}

LengthSamples == {0, 1, 2, ZSH_HISTORY_ITEM_OFFSET, 2 * KeyLimitFloor + 1, UINT_MAX}

\* A caller about to call history_ranking_function(rank, order, length).
RankInit ==
    /\ pc = "call"
    /\ rankCall \in [made : {FALSE}, rank : RankSamples, order : 0..MaxPos,
                     length : LengthSamples]
    /\ historyFile = "hist"
    /\ fileLines = << >>
    /\ entries = << >>
    /\ historySize = 0
    /\ itemOffset = 0
    /\ blacklist = hashset_init
    /\ rankmap = hashset_init
    /\ heap = << >>
    /\ freed = {}
    /\ rs = radixsort_init(0)
    /\ i = 0
    /\ rawOffset = 0
    /\ rawHistory = Array(0)
    /\ prioritizedRadix = << >>
    /\ prioritizedHistory = NoHistory
    /\ retval = "none"
    /\ minusInfinity \in MinusInfinityAsUnsigned
    /\ historyOffset = 0
    /\ dirty = FALSE
    /\ terminalInput = << >>
    /\ lastOp = NoOp
    /\ removedSince = FALSE
    /\ earlier = NoEarlier

CallRanking ==
    /\ pc = "call"
    /\ \E result \in RankReturned(rankCall.rank, rankCall.order, rankCall.length) :
           rankCall' = [made |-> TRUE, rank |-> rankCall.rank, order |-> rankCall.order,
                        length |-> rankCall.length, result |-> result]
    /\ pc' = "called"
    /\ UNCHANGED << inputVars, mgmtVars, historyOffset, earlier,
                    entries, historySize, itemOffset, scanVars, i,
                    rawOffset, resultVars >>

RankNext == CallRanking

RankSpec == RankInit /\ [][RankNext]_vars

(* ------------------- a second get_prioritized_history ----------------- *)

\* What a call of get_prioritized_history was given and what it gave;
\* items[k] is the pointer itemOffset into the k-th drained line.
Outcome ==
    [made |-> TRUE,
     entries |-> entries, historySize |-> historySize, itemOffset |-> itemOffset,
     retval |-> retval,
     counts |-> IF prioritizedHistory = NoHistory THEN << >>
                ELSE << prioritizedHistory.count, prioritizedHistory.rawCount >>,
     raw |-> IF prioritizedHistory = NoHistory THEN << >> ELSE prioritizedHistory.raw,
     drained |-> [p \in 1..Len(prioritizedRadix) |-> heap[prioritizedRadix[p].data].item]]

\* The function is called once more in the same process, the history file
\* being empty by then: the history list is as the first call left it.
CalledAgain ==
    /\ pc = "returned"
    /\ ~earlier.made
    /\ earlier' = Outcome
    /\ fileLines' = << >>
    /\ pc' = "idle"
    /\ UNCHANGED << historyFile, minusInfinity, mgmtVars, historyOffset, entries,
                    historySize, itemOffset, scanVars, i, rawOffset, resultVars,
                    rankCall >>

TwoRunNext == Next \/ CalledAgain

TwoRunSpec == Init /\ [][TwoRunNext]_vars

(* ----------------------------- history_mgmt_* ------------------------- *)

\* The reload that history_mgmt_flush types into the terminal.
Reload == "history -r\n"

\* strstr: string occurs in line.  The filler is the tail of a line only.
Contains(line, string) ==
    IF string.pad = 0
    THEN \E k \in 1..(Len(line.s) - Len(string.s) + 1) :
             SubSeq(line.s, k, k + Len(string.s) - 1) = string.s
    ELSE /\ string.pad <= line.pad
         /\ Len(string.s) <= Len(line.s)
         /\ SubSeq(line.s, Len(line.s) - Len(string.s) + 1, Len(line.s)) = string.s

\* readline's history_search_pos(string, 0, pos): the index of the first
\* entry at or after pos that contains string, -1 if there is none.  A pos
\* beyond the list is refused by history_set_pos, and the search starts at
\* where_history().
history_search_pos(list, where, string, pos) ==
    LET start == IF pos > Len(list) \/ pos < 0 THEN where ELSE pos
        found == {k \in start..(Len(list) - 1) : Contains(list[k + 1], string)}
    IN  IF found = {} THEN -1
        ELSE CHOOSE k \in found : \A j \in found : k <= j

\* readline's remove_history(which): the later entries move down by one.
remove_history(list, which) ==
    SubSeq(list, 1, which) \o SubSeq(list, which + 2, Len(list))

\* The while loop of history_mgmt_remove from offset on; stateLength is
\* historyState->length, read once before the loop.
RECURSIVE RemoveLoop(_, _, _, _, _, _)
RemoveLoop(list, where, cmd, offset, occurences, stateLength) ==
    IF offset < 0 THEN [entries |-> list, occurences |-> occurences]
    ELSE LET l == list[offset + 1]
             equal == offset < stateLength /\ cmd = l
             after == IF equal THEN remove_history(list, offset) ELSE list
         IN  RemoveLoop(after, where, cmd,
                        history_search_pos(after, where, cmd, offset + 1),
                        IF equal THEN occurences + 1 ELSE occurences, stateLength)

\* The history list is loaded and the selection runs: history_mgmt_* are
\* called in any order.
MgmtInit ==
    /\ pc = "session"
    /\ historyFile = "hist"
    /\ entries \in Logs
    /\ fileLines = entries
    /\ historySize = Len(entries) + 1
    /\ itemOffset = 0
    /\ blacklist = hashset_init
    /\ rankmap = hashset_init
    /\ heap = << >>
    /\ freed = {}
    /\ rs = radixsort_init(0)
    /\ i = 0
    /\ rawOffset = 0
    /\ rawHistory = Array(0)
    /\ prioritizedRadix = << >>
    /\ prioritizedHistory = NoHistory
    /\ retval = "none"
    /\ rankCall = NoCall
    /\ minusInfinity = 0
    /\ historyOffset = 0
    /\ dirty = FALSE
    /\ terminalInput = << >>
    /\ lastOp = NoOp
    /\ removedSince = FALSE
    /\ earlier = NoEarlier

restVars == << pc, historyFile, minusInfinity, historySize, itemOffset, scanVars, i,
              rawOffset, resultVars, rankCall, historyOffset, earlier >>

\* void history_mgmt_open(): dirty=false
history_mgmt_open ==
    /\ pc = "session"
    /\ dirty' = FALSE
    /\ lastOp' = [op |-> "open"]
    /\ removedSince' = FALSE
    /\ UNCHANGED << restVars, entries, fileLines, terminalInput >>

\* void history_clear_dirty(): dirty=false
history_clear_dirty ==
    /\ pc = "session"
    /\ dirty' = FALSE
    /\ lastOp' = [op |-> "clear_dirty"]
    /\ removedSince' = FALSE
    /\ UNCHANGED << restVars, entries, fileLines, terminalInput >>

\* dirty set by every remove.
DirtyAfterRemoveAlways(old, occurences) == TRUE

\* if(occurences) { write_history(...); dirty=true; }
DirtyAfterRemove(old, occurences) == IF occurences # 0 THEN TRUE ELSE old

\* int history_mgmt_remove(char *cmd)
history_mgmt_remove ==
    /\ pc = "session"
    /\ \E cmd \in Lines :
           LET done == RemoveLoop(entries, historyOffset, cmd,
                                  history_search_pos(entries, historyOffset, cmd, 0),
                                  0, Len(entries))
           IN  /\ entries' = done.entries
               /\ fileLines' = IF done.occurences # 0 THEN done.entries ELSE fileLines
               /\ dirty' = DirtyAfterRemove(dirty, done.occurences)
               /\ lastOp' = [op |-> "remove", cmd |-> cmd, before |-> entries,
                              returned |-> done.occurences]
               /\ removedSince' = (removedSince \/ done.occurences > 0)
    /\ UNCHANGED << restVars, terminalInput >>

\* void history_mgmt_flush(): if(dirty) fill_terminal_input("history -r\n", false)
history_mgmt_flush ==
    /\ pc = "session"
    /\ dirty => Len(terminalInput) < MaxSent
    /\ terminalInput' = IF dirty THEN Append(terminalInput, Reload) ELSE terminalInput
    /\ lastOp' = [op |-> "flush"]
    /\ UNCHANGED << restVars, entries, fileLines, dirty, removedSince >>

MgmtNext ==
    \/ history_mgmt_open
    \/ history_clear_dirty
    \/ history_mgmt_remove
    \/ history_mgmt_flush

MgmtSpec == MgmtInit /\ [][MgmtNext]_vars

(* ------------------------------- claims ------------------------------- *)

Returned == pc = "returned" /\ retval = "prioritizedHistory"

Excluded == {commandBlacklist[n] : n \in 1..Len(commandBlacklist)}

Positions == 0..(length - 1)

NoLineExcluded == \A k \in Positions : historyList(k) \notin Excluded

LinesDistinct == \A j, k \in Positions : j # k => historyList(j) # historyList(k)

count == prioritizedHistory.count

items == prioritizedHistory.items

\* C1, as stated: the raw output of get_prioritized_history has rawCount =
\* length of the log and raw[k] = log[k] for every k.
C1_RawEqualsLog ==
    Returned =>
        /\ prioritizedHistory.rawCount = length
        /\ \A k \in Positions : prioritizedHistory.raw[k] = historyList(k)

\* C1, amended: the raw output has rawCount = length of the log and is the
\* log reversed, raw[k] = log[length-1-k] for every k (newest line first).
C1_RawIsLogReversed ==
    Returned =>
        /\ prioritizedHistory.rawCount = length
        /\ DOMAIN prioritizedHistory.raw = Positions
        /\ \A k \in Positions :
               prioritizedHistory.raw[k] = historyList(length - 1 - k)

\* C1: a log of several lines that is no palindrome has been returned.
C1_Witness ==
    /\ Returned
    /\ length >= 3
    /\ historyList(0) # historyList(length - 1)

\* C2: in the result no command text appears twice in items[0..count-1],
\* whatever the prefix length.
C2_NoCommandTwice ==
    Returned =>
        \A a, b \in 0..(count - 1) : a # b => items[a] # items[b]

\* C3: a line of the log that is a string of the exclusion set is no
\* element of items[0..count-1].
C3_ExcludedNeverDrained ==
    Returned =>
        \A k \in Positions :
            historyList(k) \in Excluded =>
                \A a \in 0..(count - 1) : items[a] # historyList(k)

\* C4: count <= rawCount, and count = rawCount exactly when no line of the
\* log is excluded and the lines of the log are pairwise distinct.
C4_CountAtMostRawCount ==
    prioritizedHistory # NoHistory =>
        /\ count <= prioritizedHistory.rawCount
        /\ (count = prioritizedHistory.rawCount) <=> (NoLineExcluded /\ LinesDistinct)

\* C4: a result with as many items as the log has lines, the log of several
\* lines.
C4_Witness ==
    /\ Returned
    /\ length >= 3
    /\ count = prioritizedHistory.rawCount

\* The line of the scan's next iteration is a further occurrence of the
\* line of RankedHistoryItem r.
RepeatOf(r) ==
    /\ pc = "scan"
    /\ i < length
    /\ historyList(i) = heap[r].item

\* C5: on every further occurrence of a command the score of its record
\* becomes strictly greater than it was.
C5_ScoreGrowsOnRepeat ==
    [][\A r \in DOMAIN heap : RepeatOf(r) => heap'[r].rank > heap[r].rank]_vars

\* 10*ln(order) with its fraction discarded, and rounded to the nearest integer.
TruncatedLog(order) ==
    CHOOSE n \in 0..LogTimes10[order] :
        n * 100 <= LogTimes10[order] /\ LogTimes10[order] < (n + 1) * 100

RoundedLog(order) ==
    CHOOSE n \in 0..(LogTimes10[order] + 1) :
        n * 100 - 50 <= LogTimes10[order] /\ LogTimes10[order] < n * 100 + 50

\* A call of history_ranking_function with an order >= 1 has returned.
Ranked == rankCall.made /\ rankCall.order >= 1

\* C6, as stated: the function returns priorScore + round(10*ln(position))
\* + textLength whenever that fits in an unsigned.
C6_RoundedLogTerm ==
    LET sum == rankCall.rank + RoundedLog(rankCall.order) + rankCall.length
    IN  (Ranked /\ sum <= UINT_MAX) => rankCall.result = sum

\* C6, amended: the function returns priorScore + the integer part of
\* 10*ln(position) + textLength whenever that fits in an unsigned (the
\* logarithm term is truncated, not rounded).
C6_TruncatedLogTerm ==
    LET sum == rankCall.rank + TruncatedLog(rankCall.order) + rankCall.length
    IN  (Ranked /\ sum <= UINT_MAX) => rankCall.result = sum

\* C6: the function has returned for position 2, where 10*ln(2) = 6.93
\* truncates to 6 and rounds to 7, a prior score and a length given.
C6_Witness ==
    /\ Ranked
    /\ rankCall.order = 2
    /\ rankCall.rank > 0
    /\ rankCall.length > 0
    /\ rankCall.rank + RoundedLog(2) + rankCall.length <= UINT_MAX

\* The position in the log of the last occurrence of the line of the p-th
\* dumped item, and the bucket key of its final score.
LastOccurrence(p) ==
    LET line == heap[prioritizedRadix[p].data].item
    IN  CHOOSE k \in Positions :
            historyList(k) = line /\ \A j \in Positions : historyList(j) = line => j <= k

FinalKey(p) == StoredKey(rs, heap[prioritizedRadix[p].data].rank)

\* C7: the dumped items are in ascending order of the bucket key of their
\* final scores, and of two with the same key the one whose last occurrence
\* in the log is later comes first.
C7_DrainOrder ==
    pc \in {"copy", "returned"} /\ length > 0 =>
        \A a, b \in 1..Len(prioritizedRadix) :
            a < b =>
                /\ FinalKey(a) <= FinalKey(b)
                /\ FinalKey(a) = FinalKey(b) => LastOccurrence(a) > LastOccurrence(b)

\* C7 without its second half: ascending order of the bucket keys.
DrainAscending ==
    pc \in {"copy", "returned"} /\ length > 0 =>
        \A a, b \in 1..Len(prioritizedRadix) : a < b => FinalKey(a) <= FinalKey(b)

\* C8: NULL is returned exactly for the empty log; a log of excluded lines
\* alone returns a result with count = 0 and rawCount = its length.
C8_NullIffEmptyLog ==
    pc = "returned" =>
        /\ retval = "NULL" <=> length = 0
        /\ (length > 0 /\ \A k \in Positions : historyList(k) \in Excluded) =>
               /\ retval = "prioritizedHistory"
               /\ prioritizedHistory # NoHistory
               /\ count = 0
               /\ prioritizedHistory.rawCount = length

\* C8: a log of several lines, all excluded, has been returned.
C8_Witness ==
    /\ Returned
    /\ length >= 2
    /\ \A k \in Positions : historyList(k) \in Excluded

\* C9: a call of the ranking function whose score exceeds UINT_MAX does not
\* return (it aborts): no returned score is a wrapped-around one.
C9_OverflowIsFatal ==
    Ranked =>
        rankCall.rank + TruncatedLog(rankCall.order) + rankCall.length <= UINT_MAX

\* The scan's next iteration cuts a record that is not in the bucket of its rank.
CutMisses ==
    /\ pc = "scan"
    /\ i < length
    /\ ~Skipped(historyList(i))
    /\ hashset_get(rankmap, historyList(i)) # NULL
    /\ LET r == hashset_get(rankmap, historyList(i))
       IN  radix_cut(rs, heap[r].rank, r) = NullItem

\* C10: when the cut of a further occurrence misses, the scan aborts at that
\* step; it does not go on to the next line.
C10_CutMissIsFatal ==
    [][CutMisses => pc' = "aborted"]_vars


\* The scan has ended on a log with entries.
Scanned == pc \in {"copy", "returned"} /\ length > 0

\* The lines of the first n entries of the log that are not excluded.
RankedLines(n) == {historyList(k) : k \in 0..(n - 1)} \ Excluded

\* The score of a line after the first n entries of the log, by the ranking
\* function applied at each of its positions in turn; -1 before the first.
RECURSIVE FoldedScore(_, _)
FoldedScore(line, n) ==
    IF n = 0 THEN -1
    ELSE LET prior == FoldedScore(line, n - 1)
         IN  IF historyList(n - 1) # line THEN prior
             ELSE CHOOSE m \in RankReturned(IF prior = -1 THEN 0 ELSE prior,
                                            n - 1, strlen(line)) : TRUE

\* The RankedHistoryItems of a line.
RecordsOf(line) == {r \in DOMAIN heap : heap[r].item = line}

\* C11: after the scan every distinct non-excluded line of the log has
\* exactly one ranking record, and the score of the record is the ranking
\* function folded over the positions of the line in the log, in order,
\* starting from score 0.
C11_ScoreIsFold ==
    Scanned =>
        \A line \in RankedLines(length) :
            /\ Cardinality(RecordsOf(line)) = 1
            /\ \A r \in RecordsOf(line) : heap[r].rank = FoldedScore(line, length)

\* What get_prioritized_history builds and returns.
built == << entries, blacklist, rankmap, heap, rs, rawHistory, prioritizedRadix,
           prioritizedHistory, retval >>

\* C12: the step at which the history file cannot be read ends the program
\* and changes nothing of what the function builds (the hash sets, the
\* records, the sorter, the raw array, prioritizedHistory) nor returns a
\* result; no step is taken after the exit.
C12_ReadFailureIsFatal ==
    [][/\ pc' = "exited" => UNCHANGED built
       /\ pc # "exited"]_vars

\* C12: the read of a file of several lines has failed.
C12_Witness ==
    /\ pc = "exited"
    /\ Len(fileLines) >= 2

\* The scan's next iteration meets a further occurrence of a ranked line.
RepeatNext ==
    /\ pc = "scan"
    /\ i < length
    /\ ~Skipped(historyList(i))
    /\ hashset_get(rankmap, historyList(i)) # NULL

\* The indexes of the buckets that hold an entry of RankedHistoryItem r.
BucketsOf(r) ==
    {k \in DOMAIN rs.bucket : \E p \in 1..Len(rs.bucket[k]) : rs.bucket[k][p].data = r}

\* C14: at a further occurrence the key handed to the cut, r->rank, is the
\* index of the bucket the entry of r is in, entries clamped into the
\* maxKey bucket included, and the cut finds the entry.
C14_CutKeyIsBucketIndex ==
    RepeatNext =>
        LET r == hashset_get(rankmap, historyList(i))
        IN  /\ BucketsOf(r) = {heap[r].rank}
            /\ radix_cut(rs, heap[r].rank, r) # NullItem

\* The entries in the sorter, bucket after bucket.
Resident == radixsort_dump(rs)

\* C15: after every step of the scan the sorter holds, for each distinct
\* non-excluded line seen so far, exactly one entry, in the one bucket of
\* index min(score of its record, maxKey); size is the number of those
\* lines, and rankmap maps each of them to its record.
C15_OneEntryPerLine ==
    pc = "scan" =>
        /\ rs.size = Cardinality(RankedLines(i))
        /\ Len(Resident) = rs.size
        /\ DOMAIN rankmap = RankedLines(i)
        /\ \A line \in RankedLines(i) :
               LET r == hashset_get(rankmap, line)
               IN  /\ r # NULL
                   /\ heap[r].item = line
                   /\ Cardinality({p \in 1..Len(Resident) : Resident[p].data = r}) = 1
                   /\ BucketsOf(r) = {StoredKey(rs, heap[r].rank)}

\* C15: the scan is three lines on, with two entries in the sorter, one of
\* them clamped, and a line met twice.
C15_Witness ==
    /\ pc = "scan"
    /\ i >= 3
    /\ rs.size >= 2
    /\ \E r \in DOMAIN heap : heap[r].rank > rs.maxKey
    /\ \E j, k \in 0..(i - 1) :
           j < k /\ historyList(j) = historyList(k) /\ historyList(j) \notin Excluded

\* The scan's next iteration meets an excluded line.
ExcludedNext ==
    /\ pc = "scan"
    /\ i < length
    /\ historyList(i) \in Excluded

\* C16: a step of the scan on an excluded line leaves rankmap, the records
\* and their scores, the buckets and size as they were; it stores the line
\* in the raw output and moves to the next position, and changes nothing else.
C16_ExcludedLineOnlyRaw ==
    [][ExcludedNext =>
          /\ UNCHANGED << rankmap, heap, rs >>
          /\ rawHistory' = [rawHistory EXCEPT ![rawOffset] = historyList(i)]
          /\ i' = i + 1
          /\ UNCHANGED << pc, entries, blacklist, itemOffset, prioritizedRadix,
                          prioritizedHistory, retval, freed, dirty >>]_vars

\* C16: an excluded line has been scanned after a line that was ranked.
C16_Witness ==
    /\ pc = "scan"
    /\ i >= 2
    /\ historyList(i - 1) \in Excluded
    /\ rs.size >= 1
    /\ rawHistory[rawOffset + 1] = historyList(i - 1)

\* C19: count, read from size after the drain, is the number of items the
\* drain gave and the number of distinct non-excluded lines of the log, the
\* drain having left size as it was; and in the result every slot of
\* items[0..count-1] holds the text at item+itemOffset of the dumped record
\* of its index.
C19_CountIsDrained ==
    /\ Scanned =>
           /\ count = Len(prioritizedRadix)
           /\ count = Cardinality(RankedLines(length))
           /\ rs.size = count
           /\ rs.bucket = radixsort_init(0).bucket
    /\ Returned =>
           /\ DOMAIN items = 0..(count - 1)
           /\ \A k \in 0..(count - 1) :
                  /\ items[k] # Unset
                  /\ items[k] \in ItemText(heap[prioritizedRadix[k + 1].data].item,
                                           itemOffset)

\* C19: a result of several items has been returned for a log in which a
\* line is met twice.
C19_Witness ==
    /\ Returned
    /\ count >= 2
    /\ length > count
    /\ NoLineExcluded


\* C13: a second call on the same log, with the same exclusion set, prefix
\* length and history size, returns what the first call returned: the same
\* return value, count and rawCount, the same raw array and the same lines
\* drained in the same order, whatever the first call left behind.
C13_SecondCallSame ==
    (/\ earlier.made
     /\ pc = "returned"
     /\ entries = earlier.entries
     /\ historySize = earlier.historySize
     /\ itemOffset = earlier.itemOffset) => Outcome = earlier

\* C13: a second call has returned several items for a log in which a line
\* is met twice.
C13_Witness ==
    /\ earlier.made
    /\ Returned
    /\ entries = earlier.entries
    /\ count >= 2
    /\ length > count

\* The entries of list that are not cmd, in their order.
Without(list, cmd) == SelectSeq(list, LAMBDA l : l # cmd)

Removed == lastOp.op = "remove"

\* C17: after history_mgmt_remove(cmd) the history list is the list before
\* the call without its entries equal to cmd, the others in their order, and
\* the value returned is the number of entries that were equal to cmd.
C17_RemovesEveryEqualEntry ==
    Removed =>
        /\ entries = Without(lastOp.before, lastOp.cmd)
        /\ lastOp.returned = Len(lastOp.before) - Len(Without(lastOp.before, lastOp.cmd))

\* C18: history_mgmt_flush types the reload into the terminal exactly when
\* a history_mgmt_remove has returned more than 0 since the last
\* history_mgmt_open or history_clear_dirty, and leaves dirty as it is; a
\* history_mgmt_remove that returns 0 writes no file and leaves dirty as it
\* is.
C18_ReloadIffRemoved ==
    [][/\ lastOp'.op = "flush" =>
              /\ removedSince => terminalInput' = Append(terminalInput, Reload)
              /\ ~removedSince => terminalInput' = terminalInput
              /\ dirty' = dirty
       /\ (lastOp'.op = "remove" /\ lastOp'.returned = 0) =>
              /\ fileLines' = fileLines
              /\ dirty' = dirty]_vars

\* C18: a flush has typed the reload after a remove that removed entries,
\* and later, past a clear, a remove has returned 0 on a list with entries,
\* dirty not set.
C18_Witness ==
    /\ terminalInput = << Reload >>
    /\ Removed
    /\ lastOp.returned = 0
    /\ lastOp.before # << >>
    /\ ~dirty

=============================================================================
